---- MODULE Spec2Model ----
(***************************************************************************)
(* State-machine model of the request handlers of blog/views.py.           *)
(*                                                                         *)
(* The store (posts, categories, tags, comments, replies) is the           *)
(* relational data the handlers read and write; every action is one        *)
(* request handled from start to finish, and leaves the request it served  *)
(* and the response it produced in `request` and `response`.               *)
(*                                                                         *)
(* Text is a sequence of one-character strings, so that icontains is       *)
(* computed (upper-casing both sides, then substring search) and not       *)
(* assumed.  An optional value is <<>> (None / NULL) or <<x>>.             *)
(***************************************************************************)
EXTENDS Integers, Sequences, FiniteSets

VARIABLES posts, categories, tags, comments, replies,
          nextCommentPk, nextReplyPk, request, response

vars == <<posts, categories, tags, comments, replies,
          nextCommentPk, nextReplyPk, request, response>>

(* ------------------------------ bounds -------------------------------- *)

\* comments and replies, together, that can be created in one behaviour
MaxRows == 3
\* posts stored in the taxonomy-count behaviours
MaxTaxPosts == 2
\* posts stored in the paginated-listing behaviours
MaxPagePosts == 4
\* posts stored in the search behaviours
MaxSearchPosts == 2

(* --------------------------- optional values -------------------------- *)

None == <<>>

Some(x) == <<x>>

(* ------------------------------- text --------------------------------- *)

UpperChar(c) == CASE c = "a" -> "A" [] c = "b" -> "B" [] OTHER -> c

Upper(s) == [i \in 1..Len(s) |-> UpperChar(s[i])]

\* q occurs in s as a contiguous run of characters
Contains(s, q) ==
    \E i \in 0..(Len(s) - Len(q)) : \A j \in 1..Len(q) : s[i + j] = q[j]

\* field__icontains=q: UPPER(field) LIKE UPPER('%q%')
icontains(s, q) == Contains(Upper(s), Upper(q))

(* ------------------------- sequences of rows -------------------------- *)

Min(S) == CHOOSE x \in S : \A y \in S : x <= y

RECURSIVE SortedSeq(_)
\* the elements of a finite set of primary keys in ascending order
SortedSeq(S) == IF S = {} THEN <<>> ELSE <<Min(S)>> \o SortedSeq(S \ {Min(S)})

RECURSIVE Flatten(_)
Flatten(ss) == IF ss = <<>> THEN <<>> ELSE Head(ss) \o Flatten(Tail(ss))

Range(s) == {s[i] : i \in 1..Len(s)}

RECURSIVE distinct(_)
\* QuerySet.distinct(): each row once, first occurrence kept
distinct(s) ==
    IF s = <<>> THEN <<>>
    ELSE LET r == distinct(SubSeq(s, 1, Len(s) - 1))
         IN  IF s[Len(s)] \in Range(r) THEN r ELSE Append(r, s[Len(s)])

Occurrences(s, x) == Cardinality({i \in 1..Len(s) : s[i] = x})

(* ------------------------------ responses ----------------------------- *)

NoRequest == [view |-> "none"]

NoResponse == [kind |-> "none"]

\* raise Http404
NotFound == [kind |-> "NotFound"]

\* login_required sends an anonymous requester to the login page
RedirectLogin == [kind |-> "RedirectLogin"]

\* redirect('blog:post_detail', pk=pk)
RedirectPostDetail(pk) == [kind |-> "Redirect", to |-> pk]

\* the submission page rendered again with the form's errors
FormInvalid == [kind |-> "FormInvalid"]

RenderObject(pk) == [kind |-> "Render", object |-> pk]

(* ------------------------------ pagination ---------------------------- *)

\* Paginator.num_pages with allow_empty_first_page: ceil(count / per_page), at least 1
NumPages(count, per_page) ==
    IF count = 0 THEN 1 ELSE (count + per_page - 1) \div per_page

\* Paginator.page(n).object_list for n = 1..num_pages
Paginate(qs, per_page) ==
    [n \in 1..NumPages(Len(qs), per_page) |->
        SubSeq(qs, (n - 1) * per_page + 1,
               IF n * per_page < Len(qs) THEN n * per_page ELSE Len(qs))]

\* MultipleObjectMixin.get_context_data: paginate only when the view sets paginate_by
RenderList(qs, paginate_by, extra) ==
    [kind |-> "RenderList", object_list |-> qs, paginate_by |-> paginate_by,
     pages |-> IF paginate_by = None THEN <<qs>> ELSE Paginate(qs, paginate_by[1]),
     extra |-> extra]

(* --------------------------- program constants ------------------------ *)

\* IndexView.paginate_by
IndexPaginateBy == 3

\* SearchPostView.paginate_by
SearchPaginateBy == 2

\* ListView's paginate_by when the view class sets none
DefaultPaginateBy == None

(* ------------------------------- queries ------------------------------ *)

\* Post.objects.all(), in primary-key order
AllPosts == SortedSeq(DOMAIN posts)

\* the rows of the many-to-many table between Post and Tag: one per (post, tag)
PostTagRows ==
    Flatten([i \in 1..Len(AllPosts) |->
        LET ts == SortedSeq(posts[AllPosts[i]].tags)
        IN  [j \in 1..Len(ts) |-> <<AllPosts[i], ts[j]>>]])

\* posts whose category is c (reverse side of Post.category)
CategoryPosts(c) == {p \in DOMAIN posts : posts[p].category = c}

\* posts that carry tag t (reverse side of Post.tags)
TagPosts(t) == {r[1] : r \in {x \in Range(PostTagRows) : x[2] = t}}

\* entity LEFT OUTER JOIN post: a row per related post, or one row with NULL
LeftJoinPosts(keys, related) ==
    Flatten([i \in 1..Len(keys) |->
        LET ps == SortedSeq(related[keys[i]])
        IN  IF ps = <<>> THEN << <<keys[i], None>> >>
            ELSE [j \in 1..Len(ps) |-> <<keys[i], Some(ps[j])>>]])

\* Count('post') with the filter argument left out: every related post counts
CountPublic_no_filter(rows, key) ==
    Cardinality({i \in 1..Len(rows) : rows[i][1] = key /\ rows[i][2] # None})

\* Count('post', filter=Q(post__is_public=True)) over the rows of one group
CountPublic(rows, key) ==
    Cardinality({i \in 1..Len(rows) :
        /\ rows[i][1] = key
        /\ rows[i][2] # None
        /\ posts[rows[i][2][1]].is_public})

\* annotate(num_post=...): GROUP BY the entity, one output row per group
Annotate(rows) ==
    LET keys == distinct([i \in 1..Len(rows) |-> rows[i][1]])
    IN  [i \in 1..Len(keys) |-> [pk |-> keys[i], num_post |-> CountPublic(rows, keys[i])]]

\* Category.objects.annotate(num_post=Count('post', filter=Q(post__is_public=True)))
CategoryListQueryset ==
    Annotate(LeftJoinPosts(SortedSeq(DOMAIN categories),
                           [c \in DOMAIN categories |-> CategoryPosts(c)]))

\* Tag.objects.annotate(num_post=Count('post', filter=Q(post__is_public=True)))
TagListQueryset ==
    Annotate(LeftJoinPosts(SortedSeq(DOMAIN tags), [t \in DOMAIN tags |-> TagPosts(t)]))

\* get_object_or_404(Category, slug=slug): the matching primary keys (slug is unique)
CategoryBySlug(slug) == {c \in DOMAIN categories : categories[c].slug = slug}

\* get_object_or_404(Tag, slug=slug)
TagBySlug(slug) == {t \in DOMAIN tags : tags[t].slug = slug}

\* the category listing with the filter left out
PostsOfCategory_no_filter(c) == AllPosts

\* Post.objects.all().filter(category=c)
PostsOfCategory(c) == SelectSeq(AllPosts, LAMBDA p : posts[p].category = c)

\* Post.objects.all().filter(tags=t): join on the many-to-many rows
PostsOfTag(t) ==
    LET rows == SelectSeq(PostTagRows, LAMBDA r : r[2] = t)
    IN  [i \in 1..Len(rows) |-> rows[i][1]]

\* post JOIN category LEFT OUTER JOIN tags (an OR across relations keeps tagless posts)
SearchJoinRows ==
    Flatten([i \in 1..Len(AllPosts) |->
        LET ts == SortedSeq(posts[AllPosts[i]].tags)
        IN  IF ts = <<>> THEN << <<AllPosts[i], None>> >>
            ELSE [j \in 1..Len(ts) |-> <<AllPosts[i], Some(ts[j])>>]])

\* Q(title__icontains) | Q(content__icontains) | Q(category__name__icontains) | Q(tags__name__icontains)
lookups(row, query) ==
    \/ icontains(posts[row[1]].title, query)
    \/ icontains(posts[row[1]].content, query)
    \/ icontains(categories[posts[row[1]].category].name, query)
    \/ (row[2] # None /\ icontains(tags[row[2][1]].name, query))

\* the filtered join, one entry per matching row (a post once per matching tag row)
SearchFilter(query) ==
    LET rows == SelectSeq(SearchJoinRows, LAMBDA r : lookups(r, query))
    IN  [i \in 1..Len(rows) |-> rows[i][1]]

SearchQueryset_no_distinct(q) == IF q # None THEN SearchFilter(q[1]) ELSE AllPosts

\* SearchPostView.get_queryset; q is request.GET.get('q', None)
SearchQueryset(q) == IF q # None THEN distinct(SearchFilter(q[1])) ELSE AllPosts

(* ------------------------------ read views ---------------------------- *)

ReadOnly == UNCHANGED <<posts, categories, tags, comments, replies, nextCommentPk, nextReplyPk>>

\* get_object without the visibility test
PostDetailView_no_gate(pk, auth) ==
    /\ request' = [view |-> "post_detail", pk |-> pk, auth |-> auth]
    /\ response' = IF pk \notin DOMAIN posts THEN NotFound ELSE RenderObject(pk)
    /\ ReadOnly

\* PostDetailView.get_object for the post id pk, requester authenticated or not
PostDetailView(pk, auth) ==
    /\ request' = [view |-> "post_detail", pk |-> pk, auth |-> auth]
    /\ response' =
          IF pk \notin DOMAIN posts THEN NotFound
          ELSE IF ~posts[pk].is_public /\ ~auth THEN NotFound
          ELSE RenderObject(pk)
    /\ ReadOnly

\* IndexView: every post, 3 to a page
IndexView ==
    /\ request' = [view |-> "index"]
    /\ response' = RenderList(AllPosts, Some(IndexPaginateBy), None)
    /\ ReadOnly

\* CategoryListView
CategoryListView ==
    /\ request' = [view |-> "category_list"]
    /\ response' = RenderList(CategoryListQueryset, DefaultPaginateBy, None)
    /\ ReadOnly

\* TagListView
TagListView ==
    /\ request' = [view |-> "tag_list"]
    /\ response' = RenderList(TagListQueryset, DefaultPaginateBy, None)
    /\ ReadOnly

\* CategoryPostView.get_queryset and get_context_data
CategoryPostView(category_slug) ==
    /\ request' = [view |-> "category_post", slug |-> category_slug]
    /\ response' =
          IF CategoryBySlug(category_slug) = {} THEN NotFound
          ELSE LET category == CHOOSE c \in CategoryBySlug(category_slug) : TRUE
               IN  RenderList(PostsOfCategory(category), DefaultPaginateBy, Some(category))
    /\ ReadOnly

\* TagPostView.get_queryset and get_context_data
TagPostView(tag_slug) ==
    /\ request' = [view |-> "tag_post", slug |-> tag_slug]
    /\ response' =
          IF TagBySlug(tag_slug) = {} THEN NotFound
          ELSE LET tag == CHOOSE t \in TagBySlug(tag_slug) : TRUE
               IN  RenderList(PostsOfTag(tag), DefaultPaginateBy, Some(tag))
    /\ ReadOnly

\* SearchPostView; q is request.GET.get('q', None)
SearchPostView(q) ==
    /\ request' = [view |-> "search", q |-> q]
    /\ response' = RenderList(SearchQueryset(q), Some(SearchPaginateBy), q)
    /\ ReadOnly

(* ----------------------------- write views ---------------------------- *)

\* the row store extended with one new row under primary key pk
Insert(table, pk, row) == [k \in DOMAIN table \cup {pk} |-> IF k = pk THEN row ELSE table[k]]

\* the row store without the rows whose keys are in pks
Delete(table, pks) == [k \in DOMAIN table \ pks |-> table[k]]

\* rows handed a primary key so far, deleted ones included
RowsCreated == (nextCommentPk - 1) + (nextReplyPk - 1)

\* CommentForm.save(commit=False): an unsaved Comment from the submitted data;
\* approved is not a form field and takes the model's default
CommentForm_save(form) == [post |-> form.post, approved |-> FALSE]

\* ReplyForm.save(commit=False)
ReplyForm_save(form) == [comment |-> form.comment, approved |-> FALSE]

\* Comment.approve() / Reply.approve(): set the flag and save
approve(row) == [row EXCEPT !.approved = TRUE]

\* replies deleted together with comment pk (ON DELETE CASCADE of Reply.comment)
CascadeReplies(pk) == {r \in DOMAIN replies : replies[r].comment = pk}

\* form_valid that keeps the post reference of the submitted data when there is one
CommentFormView_trust_form(pk, form) ==
    /\ request' = [view |-> "comment_form", pk |-> pk, form |-> form]
    /\ IF ~form.valid \/ pk \notin DOMAIN posts
       THEN /\ response' = IF pk \notin DOMAIN posts THEN NotFound ELSE FormInvalid
            /\ UNCHANGED <<comments, nextCommentPk>>
       ELSE /\ RowsCreated < MaxRows
            /\ comments' = Insert(comments, nextCommentPk,
                    [CommentForm_save(form) EXCEPT !.post =
                        IF form.post # None THEN form.post[1] ELSE pk])
            /\ nextCommentPk' = nextCommentPk + 1
            /\ response' = RedirectPostDetail(pk)
    /\ UNCHANGED <<posts, categories, tags, replies, nextReplyPk>>

\* CommentFormView: POST of a comment form under the post id pk
CommentFormView(pk, form) ==
    /\ request' = [view |-> "comment_form", pk |-> pk, form |-> form]
    /\ IF ~form.valid
       THEN \* form_invalid renders get_context_data, which resolves the post
            /\ response' = IF pk \notin DOMAIN posts THEN NotFound ELSE FormInvalid
            /\ UNCHANGED <<comments, nextCommentPk>>
       ELSE IF pk \notin DOMAIN posts
       THEN /\ response' = NotFound
            /\ UNCHANGED <<comments, nextCommentPk>>
       ELSE /\ RowsCreated < MaxRows
            /\ comments' = Insert(comments, nextCommentPk,
                                  [CommentForm_save(form) EXCEPT !.post = pk])
            /\ nextCommentPk' = nextCommentPk + 1
            /\ response' = RedirectPostDetail(pk)
    /\ UNCHANGED <<posts, categories, tags, replies, nextReplyPk>>

\* comment_approve without the login_required decorator
comment_approve_no_login(pk, auth) ==
    /\ request' = [view |-> "comment_approve", pk |-> pk, auth |-> auth]
    /\ IF pk \notin DOMAIN comments
       THEN response' = NotFound /\ UNCHANGED comments
       ELSE /\ comments' = [comments EXCEPT ![pk] = approve(@)]
            /\ response' = RedirectPostDetail(comments'[pk].post)
    /\ UNCHANGED <<posts, categories, tags, replies, nextCommentPk, nextReplyPk>>

\* comment_approve that redirects with the comment's own key instead of its post's
comment_approve_own_pk(pk, auth) ==
    /\ request' = [view |-> "comment_approve", pk |-> pk, auth |-> auth]
    /\ IF ~auth
       THEN response' = RedirectLogin /\ UNCHANGED comments
       ELSE IF pk \notin DOMAIN comments
       THEN response' = NotFound /\ UNCHANGED comments
       ELSE /\ comments' = [comments EXCEPT ![pk] = approve(@)]
            /\ response' = RedirectPostDetail(pk)
    /\ UNCHANGED <<posts, categories, tags, replies, nextCommentPk, nextReplyPk>>

\* comment_approve, behind login_required
comment_approve(pk, auth) ==
    /\ request' = [view |-> "comment_approve", pk |-> pk, auth |-> auth]
    /\ IF ~auth
       THEN response' = RedirectLogin /\ UNCHANGED comments
       ELSE IF pk \notin DOMAIN comments
       THEN response' = NotFound /\ UNCHANGED comments
       ELSE /\ comments' = [comments EXCEPT ![pk] = approve(@)]
            /\ response' = RedirectPostDetail(comments'[pk].post)
    /\ UNCHANGED <<posts, categories, tags, replies, nextCommentPk, nextReplyPk>>

\* comment_remove that hides the comment (approved = False) instead of deleting it
comment_remove_soft(pk, auth) ==
    /\ request' = [view |-> "comment_remove", pk |-> pk, auth |-> auth]
    /\ IF ~auth
       THEN response' = RedirectLogin /\ UNCHANGED <<comments, replies>>
       ELSE IF pk \notin DOMAIN comments
       THEN response' = NotFound /\ UNCHANGED <<comments, replies>>
       ELSE /\ comments' = [comments EXCEPT ![pk].approved = FALSE]
            /\ UNCHANGED replies
            /\ response' = RedirectPostDetail(comments[pk].post)
    /\ UNCHANGED <<posts, categories, tags, nextCommentPk, nextReplyPk>>

\* comment_remove, behind login_required; the redirect reads comment.post after the delete
comment_remove(pk, auth) ==
    /\ request' = [view |-> "comment_remove", pk |-> pk, auth |-> auth]
    /\ IF ~auth
       THEN response' = RedirectLogin /\ UNCHANGED <<comments, replies>>
       ELSE IF pk \notin DOMAIN comments
       THEN response' = NotFound /\ UNCHANGED <<comments, replies>>
       ELSE /\ comments' = Delete(comments, {pk})
            /\ replies' = Delete(replies, CascadeReplies(pk))
            /\ response' = RedirectPostDetail(comments[pk].post)
    /\ UNCHANGED <<posts, categories, tags, nextCommentPk, nextReplyPk>>

\* ReplyFormView that saves the reply before looking at the form's validity
ReplyFormView_save_first(pk, form) ==
    /\ request' = [view |-> "reply_form", pk |-> pk, form |-> form]
    /\ IF pk \notin DOMAIN comments
       THEN /\ response' = NotFound
            /\ UNCHANGED <<replies, nextReplyPk>>
       ELSE /\ RowsCreated < MaxRows
            /\ replies' = Insert(replies, nextReplyPk,
                                 [ReplyForm_save(form) EXCEPT !.comment = pk])
            /\ nextReplyPk' = nextReplyPk + 1
            /\ response' = IF form.valid
                           THEN RedirectPostDetail(comments[replies'[nextReplyPk].comment].post)
                           ELSE FormInvalid
    /\ UNCHANGED <<posts, categories, tags, comments, nextCommentPk>>

\* ReplyFormView: POST of a reply form under the comment id pk
ReplyFormView(pk, form) ==
    /\ request' = [view |-> "reply_form", pk |-> pk, form |-> form]
    /\ IF ~form.valid
       THEN /\ response' = IF pk \notin DOMAIN comments THEN NotFound ELSE FormInvalid
            /\ UNCHANGED <<replies, nextReplyPk>>
       ELSE IF pk \notin DOMAIN comments
       THEN /\ response' = NotFound
            /\ UNCHANGED <<replies, nextReplyPk>>
       ELSE /\ RowsCreated < MaxRows
            /\ replies' = Insert(replies, nextReplyPk,
                                 [ReplyForm_save(form) EXCEPT !.comment = pk])
            /\ nextReplyPk' = nextReplyPk + 1
            /\ response' = RedirectPostDetail(comments[replies'[nextReplyPk].comment].post)
    /\ UNCHANGED <<posts, categories, tags, comments, nextCommentPk>>

\* reply_approve, behind login_required
reply_approve(pk, auth) ==
    /\ request' = [view |-> "reply_approve", pk |-> pk, auth |-> auth]
    /\ IF ~auth
       THEN response' = RedirectLogin /\ UNCHANGED replies
       ELSE IF pk \notin DOMAIN replies
       THEN response' = NotFound /\ UNCHANGED replies
       ELSE /\ replies' = [replies EXCEPT ![pk] = approve(@)]
            /\ response' = RedirectPostDetail(comments[replies'[pk].comment].post)
    /\ UNCHANGED <<posts, categories, tags, comments, nextCommentPk, nextReplyPk>>

\* reply_remove whose delete also removes the replies beside it
reply_remove_siblings(pk, auth) ==
    /\ request' = [view |-> "reply_remove", pk |-> pk, auth |-> auth]
    /\ IF ~auth
       THEN response' = RedirectLogin /\ UNCHANGED replies
       ELSE IF pk \notin DOMAIN replies
       THEN response' = NotFound /\ UNCHANGED replies
       ELSE /\ replies' = Delete(replies, CascadeReplies(replies[pk].comment))
            /\ response' = RedirectPostDetail(comments[replies[pk].comment].post)
    /\ UNCHANGED <<posts, categories, tags, comments, nextCommentPk, nextReplyPk>>

\* reply_remove, behind login_required; the redirect follows reply.comment.post after the delete
reply_remove(pk, auth) ==
    /\ request' = [view |-> "reply_remove", pk |-> pk, auth |-> auth]
    /\ IF ~auth
       THEN response' = RedirectLogin /\ UNCHANGED replies
       ELSE IF pk \notin DOMAIN replies
       THEN response' = NotFound /\ UNCHANGED replies
       ELSE /\ replies' = Delete(replies, {pk})
            /\ response' = RedirectPostDetail(comments[replies[pk].comment].post)
    /\ UNCHANGED <<posts, categories, tags, comments, nextCommentPk, nextReplyPk>>

(* ------------------------------ initial data -------------------------- *)

\* the categories and tags of every behaviour: read-only for all handlers
Categories0 == << [name |-> <<"a", "b">>, slug |-> "python"],
                  [name |-> <<"B">>, slug |-> "django"] >>

Tags0 == << [name |-> <<"A">>, slug |-> "web"],
            [name |-> <<"b", "a">>, slug |-> "orm"] >>

\* slugs a request path can carry: every stored one and one that matches nothing
CategorySlugs == {Categories0[c].slug : c \in DOMAIN Categories0} \cup {"unknown"}

TagSlugs == {Tags0[t].slug : t \in DOMAIN Tags0} \cup {"unknown"}

\* values of request.GET.get('q', None): absent, empty, and texts in either case
Queries == {None, Some(<< >>), Some(<<"a">>), Some(<<"A">>), Some(<<"b">>),
            Some(<<"a", "B">>), Some(<<"b", "A">>), Some(<<"b", "b">>)}

\* stores of up to n posts, keyed 1..k, each row drawn from Shapes
PostStores(n, Shapes) == UNION {[1..k -> Shapes] : k \in 0..n}

InitRest ==
    /\ categories = Categories0
    /\ tags = Tags0
    /\ comments = << >>
    /\ replies = << >>
    /\ nextCommentPk = 1
    /\ nextReplyPk = 1
    /\ request = NoRequest
    /\ response = NoResponse

(* ---------------- comment / reply life cycle: specification ----------- *)

\* two posts, the first public and the second not
StorePosts0 == << [title |-> <<"a">>, content |-> <<"b">>, category |-> 1, tags |-> {1},
                   is_public |-> TRUE],
                  [title |-> <<"B">>, content |-> << >>, category |-> 1, tags |-> {1, 2},
                   is_public |-> FALSE] >>

Init ==
    /\ posts = StorePosts0
    /\ InitRest

\* primary keys a request path can carry: every key handed out so far and the next one
PostPks == 1..(Cardinality(DOMAIN posts) + 1)

CommentPks == 1..nextCommentPk

ReplyPks == 1..nextReplyPk

CommentForms == [valid : {TRUE}, post : {None} \cup {Some(p) : p \in DOMAIN posts}]
                    \cup {[valid |-> FALSE, post |-> None]}

ReplyForms == [valid : {TRUE}, comment : {None} \cup {Some(c) : c \in DOMAIN comments}]
                    \cup {[valid |-> FALSE, comment |-> None]}

Next ==
    \/ \E pk \in PostPks, auth \in BOOLEAN : PostDetailView(pk, auth)
    \/ IndexView
    \/ CategoryListView
    \/ \E slug \in CategorySlugs : CategoryPostView(slug)
    \/ TagListView
    \/ \E slug \in TagSlugs : TagPostView(slug)
    \/ \E q \in {None, Some(<<"a">>)} : SearchPostView(q)
    \/ \E pk \in PostPks, form \in CommentForms : CommentFormView(pk, form)
    \/ \E pk \in CommentPks, auth \in BOOLEAN : comment_approve(pk, auth)
    \/ \E pk \in CommentPks, auth \in BOOLEAN : comment_remove(pk, auth)
    \/ \E pk \in CommentPks, form \in ReplyForms : ReplyFormView(pk, form)
    \/ \E pk \in ReplyPks, auth \in BOOLEAN : reply_approve(pk, auth)
    \/ \E pk \in ReplyPks, auth \in BOOLEAN : reply_remove(pk, auth)

Spec == Init /\ [][Next]_vars

(* ------------- post detail and taxonomy counts: specification --------- *)

PostRows == [title : {<<"a">>}, content : {<<"b">>}, category : DOMAIN Categories0,
             tags : SUBSET DOMAIN Tags0, is_public : BOOLEAN]

InitTaxonomy ==
    /\ posts \in PostStores(MaxTaxPosts, PostRows)
    /\ InitRest

NextTaxonomy ==
    \/ \E pk \in PostPks, auth \in BOOLEAN : PostDetailView(pk, auth)
    \/ CategoryListView
    \/ TagListView

SpecTaxonomy == InitTaxonomy /\ [][NextTaxonomy]_vars

(* -------------------- paginated listings: specification --------------- *)

\* public posts of either category with no, one or both tags, and non-public ones with one tag
PagePostRows ==
    [title : {<<"a">>}, content : {<<"b">>}, category : DOMAIN Categories0,
     tags : {{}, {1}, {1, 2}}, is_public : {TRUE}]
    \cup [title : {<<"a">>}, content : {<<"b">>}, category : DOMAIN Categories0,
          tags : {{1}}, is_public : {FALSE}]

InitPaging ==
    /\ posts \in PostStores(MaxPagePosts, PagePostRows)
    /\ InitRest

NextPaging ==
    \/ IndexView
    \/ \E slug \in CategorySlugs : CategoryPostView(slug)
    \/ \E slug \in TagSlugs : TagPostView(slug)

SpecPaging == InitPaging /\ [][NextPaging]_vars

(* --------------------------- search: specification -------------------- *)

SearchPostRows == [title : {<<"a">>, <<"B", "b">>}, content : {<< >>, <<"A", "b">>},
                   category : DOMAIN Categories0, tags : {{}, {1}, {1, 2}},
                   is_public : {TRUE}]

InitSearch ==
    /\ posts \in PostStores(MaxSearchPosts, SearchPostRows)
    /\ InitRest

NextSearch == \E q \in Queries : SearchPostView(q)

SpecSearch == InitSearch /\ [][NextSearch]_vars

(* ============================== properties ============================ *)

\* the object_list holds exactly the members of S, each once
HoldsExactly(object_list, S) ==
    /\ Range(object_list) = S
    /\ Len(object_list) = Cardinality(S)

(* C1: the post-detail request for a stored post p returns p exactly when   *)
(* p.is_public is true or the requester is authenticated; for a non-public *)
(* post and an unauthenticated requester the outcome is NotFound, the very  *)
(* outcome of an id that matches no post.                                   *)
C1_DetailVisibility ==
    request.view = "post_detail" =>
        LET pk == request.pk
            shown == pk \in DOMAIN posts /\ (posts[pk].is_public \/ request.auth)
        IN  /\ shown => response = [kind |-> "Render", object |-> pk]
            /\ ~shown => response = [kind |-> "NotFound"]

C1_Witness ==
    /\ request.view = "post_detail"
    /\ request.pk \in DOMAIN posts
    /\ ~posts[request.pk].is_public
    /\ ~request.auth
    /\ response.kind = "NotFound"

\* the annotated listing holds one row per stored entity, with the count of its public posts
CountsPublicPosts(object_list, entities, related) ==
    /\ Len(object_list) = Cardinality(entities)
    /\ \A e \in entities :
          /\ Cardinality({i \in 1..Len(object_list) : object_list[i].pk = e}) = 1
          /\ \A i \in 1..Len(object_list) :
                object_list[i].pk = e =>
                    object_list[i].num_post =
                        Cardinality({p \in related[e] : posts[p].is_public})

(* C6: in the category listing and in the tag listing every stored entity E *)
(* appears exactly once, and num_post is the number of posts related to E   *)
(* with is_public = true (0 when E has no posts or only non-public ones).   *)
C6_TaxonomyCounts ==
    /\ request.view = "category_list" =>
          CountsPublicPosts(response.object_list, DOMAIN categories,
                            [c \in DOMAIN categories |->
                                {p \in DOMAIN posts : posts[p].category = c}])
    /\ request.view = "tag_list" =>
          CountsPublicPosts(response.object_list, DOMAIN tags,
                            [t \in DOMAIN tags |->
                                {p \in DOMAIN posts : t \in posts[p].tags}])

\* a tag listed with count 0 although a (non-public) post carries it, beside a counted one
C6_Witness ==
    /\ request.view = "tag_list"
    /\ \E i, j \in 1..Len(response.object_list) :
          /\ response.object_list[i].num_post = 0
          /\ \E p \in DOMAIN posts : response.object_list[i].pk \in posts[p].tags
          /\ response.object_list[j].num_post > 0

\* the letters x and y are equal up to case
SameLetter(x, y) == x = y \/ {x, y} \in {{"a", "A"}, {"b", "B"}}

\* q occurs in s when case is ignored
ContainsIgnoringCase(s, q) ==
    \E i \in 0..(Len(s) - Len(q)) : \A j \in 1..Len(q) : SameLetter(s[i + j], q[j])

\* post p matches query text q on its title, content, category name or one of its tag names
Matches(p, q) ==
    \/ ContainsIgnoringCase(posts[p].title, q)
    \/ ContainsIgnoringCase(posts[p].content, q)
    \/ ContainsIgnoringCase(categories[posts[p].category].name, q)
    \/ \E t \in posts[p].tags : ContainsIgnoringCase(tags[t].name, q)

(* C7: for a present query q (the empty string included, which matches      *)
(* every post) the search result is exactly the set of posts whose title,   *)
(* content, category name or some tag name contains q case-insensitively,   *)
(* each post once; for an absent q it is the set of all posts.              *)
C7_SearchResult ==
    request.view = "search" =>
        /\ request.q # None =>
              HoldsExactly(response.object_list,
                           {p \in DOMAIN posts : Matches(p, request.q[1])})
        /\ request.q = Some(<< >>) => HoldsExactly(response.object_list, DOMAIN posts)
        /\ request.q = None => HoldsExactly(response.object_list, DOMAIN posts)

\* a post found through both of its tags only, and listed once, beside a post not found
C7_Witness ==
    /\ request.view = "search"
    /\ request.q = Some(<<"a">>)
    /\ \E p \in DOMAIN posts :
          /\ posts[p].tags = {1, 2}
          /\ ~ContainsIgnoringCase(posts[p].title, <<"a">>)
          /\ ~ContainsIgnoringCase(posts[p].content, <<"a">>)
          /\ ~ContainsIgnoringCase(categories[posts[p].category].name, <<"a">>)
          /\ Occurrences(response.object_list, p) = 1
    /\ \E p \in DOMAIN posts : Occurrences(response.object_list, p) = 0

\* the posts a category_post / tag_post request with a known slug is about
RelatedPosts ==
    IF request.view = "category_post"
    THEN {p \in DOMAIN posts : \E c \in DOMAIN categories :
              categories[c].slug = request.slug /\ posts[p].category = c}
    ELSE {p \in DOMAIN posts : \E t \in DOMAIN tags :
              tags[t].slug = request.slug /\ t \in posts[p].tags}

TaxonomyPostListing ==
    /\ request.view \in {"category_post", "tag_post"}
    /\ response.kind = "RenderList"

Moderation == {"comment_approve", "comment_remove", "reply_approve", "reply_remove"}

\* every row of table is in table' with the same fields
RowsKept(table) == \A k \in DOMAIN table : k \in DOMAIN table' /\ table'[k] = table[k]

(* C2: a valid comment submission under an existing post id k adds exactly  *)
(* one Comment, with approved = false and post = k whatever post reference  *)
(* the form data carries, and redirects to the detail view of post k; no    *)
(* other comment, reply or post is changed.                                 *)
C2_CommentSubmission ==
    [][ (/\ request'.view = "comment_form"
         /\ request'.form.valid
         /\ request'.pk \in DOMAIN posts)
        => /\ Cardinality(DOMAIN comments' \ DOMAIN comments) = 1
           /\ \A k \in DOMAIN comments' \ DOMAIN comments :
                 comments'[k] = [post |-> request'.pk, approved |-> FALSE]
           /\ DOMAIN comments \subseteq DOMAIN comments'
           /\ RowsKept(comments)
           /\ replies' = replies
           /\ posts' = posts
           /\ response' = [kind |-> "Redirect", to |-> request'.pk] ]_vars

\* a comment stored under the path's post although the form named the other post
C2_Witness ==
    /\ request.view = "comment_form"
    /\ request.form.valid
    /\ request.form.post # None
    /\ request.form.post[1] # request.pk
    /\ response = [kind |-> "Redirect", to |-> request.pk]
    /\ \E k \in DOMAIN comments : comments[k].post = request.pk /\ ~comments[k].approved
    /\ \E k \in DOMAIN comments : comments[k].post # request.pk

(* C3: a moderation action (comment_approve, comment_remove, reply_approve, *)
(* reply_remove) by an unauthenticated actor, for any target id, existing   *)
(* or not, changes no post, comment or reply and ends in the redirect to    *)
(* login (not NotFound, not a redirect to a post).                          *)
C3_AnonymousModeration ==
    [][ (request'.view \in Moderation /\ ~request'.auth)
        => /\ posts' = posts
           /\ comments' = comments
           /\ replies' = replies
           /\ response' = [kind |-> "RedirectLogin"] ]_vars

\* an anonymous comment_remove of a stored, approved comment that has a reply
C3_Witness ==
    /\ request.view = "comment_remove"
    /\ ~request.auth
    /\ request.pk \in DOMAIN comments
    /\ comments[request.pk].approved
    /\ \E r \in DOMAIN replies : replies[r].comment = request.pk
    /\ response.kind = "RedirectLogin"

(* C4: comment_approve (reply_approve) on an existing id by an              *)
(* authenticated actor leaves that comment (reply) with approved = true,    *)
(* changes no other comment, reply or post nor the target's parent, and     *)
(* redirects to the detail view of the post that owns the target, whether   *)
(* the target was approved before or not.                                   *)
C4_Approve ==
    [][ /\ (/\ request'.view = "comment_approve"
            /\ request'.auth
            /\ request'.pk \in DOMAIN comments)
           => /\ DOMAIN comments' = DOMAIN comments
              /\ \A k \in DOMAIN comments :
                    comments'[k] = IF k = request'.pk
                                   THEN [post |-> comments[k].post, approved |-> TRUE]
                                   ELSE comments[k]
              /\ replies' = replies
              /\ posts' = posts
              /\ response' = [kind |-> "Redirect", to |-> comments[request'.pk].post]
        /\ (/\ request'.view = "reply_approve"
            /\ request'.auth
            /\ request'.pk \in DOMAIN replies)
           => /\ DOMAIN replies' = DOMAIN replies
              /\ \A k \in DOMAIN replies :
                    replies'[k] = IF k = request'.pk
                                  THEN [comment |-> replies[k].comment, approved |-> TRUE]
                                  ELSE replies[k]
              /\ comments' = comments
              /\ posts' = posts
              /\ response' = [kind |-> "Redirect",
                              to |-> comments[replies[request'.pk].comment].post] ]_vars

\* an approved comment on the second post, beside an unapproved comment and a reply
C4_Witness ==
    /\ request.view = "comment_approve"
    /\ request.auth
    /\ request.pk \in DOMAIN comments
    /\ comments[request.pk].approved
    /\ comments[request.pk].post # request.pk
    /\ response = [kind |-> "Redirect", to |-> comments[request.pk].post]
    /\ \E k \in DOMAIN comments : ~comments[k].approved
    /\ replies # << >>

(* C5: reply_remove on an existing reply r by an authenticated actor        *)
(* removes r and nothing else (its comment, the other replies and all posts *)
(* stay), and redirects to the detail view of the post that owned r's       *)
(* comment before the deletion.                                             *)
C5_ReplyRemove ==
    [][ (/\ request'.view = "reply_remove"
         /\ request'.auth
         /\ request'.pk \in DOMAIN replies)
        => /\ DOMAIN replies' = DOMAIN replies \ {request'.pk}
           /\ \A k \in DOMAIN replies' : replies'[k] = replies[k]
           /\ comments' = comments
           /\ posts' = posts
           /\ response' = [kind |-> "Redirect",
                           to |-> comments[replies[request'.pk].comment].post] ]_vars

\* a reply removed from under a comment of the second post; the other reply is still there
C5_Witness ==
    /\ request.view = "reply_remove"
    /\ request.auth
    /\ request.pk \notin DOMAIN replies
    /\ response = [kind |-> "Redirect", to |-> 2]
    /\ \E r \in DOMAIN replies : comments[replies[r].comment].post = 2
    /\ nextReplyPk = 3

\* the request being served names a slug or an id that matches nothing
C9_NothingMatches ==
    \/ /\ request'.view = "category_post"
       /\ request'.slug \notin {categories[c].slug : c \in DOMAIN categories}
    \/ /\ request'.view = "tag_post"
       /\ request'.slug \notin {tags[t].slug : t \in DOMAIN tags}
    \/ /\ request'.view = "comment_form"
       /\ request'.pk \notin DOMAIN posts
    \/ /\ request'.view = "reply_form"
       /\ request'.pk \notin DOMAIN comments
    \/ /\ request'.view \in {"comment_approve", "comment_remove"}
       /\ request'.auth
       /\ request'.pk \notin DOMAIN comments
    \/ /\ request'.view \in {"reply_approve", "reply_remove"}
       /\ request'.auth
       /\ request'.pk \notin DOMAIN replies

\* the request being served submits an invalid form under an id that exists
C9_InvalidForm ==
    \/ /\ request'.view = "comment_form"
       /\ ~request'.form.valid
       /\ request'.pk \in DOMAIN posts
    \/ /\ request'.view = "reply_form"
       /\ ~request'.form.valid
       /\ request'.pk \in DOMAIN comments

(* C9: a request that ends in NotFound or ValidationFailure leaves posts,   *)
(* comments and replies unchanged: a category/tag listing with an unknown   *)
(* slug, a submission whose form is invalid, a valid submission whose path  *)
(* id matches no post (comment), and a moderation action on a nonexistent   *)
(* id each end so, persist no row and modify or delete none.                *)
C9_FailuresChangeNothing ==
    [][ /\ C9_NothingMatches => response' = [kind |-> "NotFound"]
        /\ C9_InvalidForm => response' = [kind |-> "FormInvalid"]
        /\ response'.kind \in {"NotFound", "FormInvalid"}
              => /\ posts' = posts
                 /\ comments' = comments
                 /\ replies' = replies
                 /\ nextCommentPk' = nextCommentPk
                 /\ nextReplyPk' = nextReplyPk ]_vars

\* an invalid reply form under a stored comment: the page again, no reply stored
C9_Witness ==
    /\ request.view = "reply_form"
    /\ ~request.form.valid
    /\ request.pk \in DOMAIN comments
    /\ response.kind = "FormInvalid"
    /\ replies = << >>

(* C10: across any sequence of handler invocations a comment or reply that  *)
(* is approved stays approved for as long as it exists: a row is created    *)
(* unapproved, goes from unapproved to approved, or is removed; no handler  *)
(* sets approved back to false.                                             *)
C10_ApprovedStaysApproved ==
    [][ /\ \A k \in DOMAIN comments \cap DOMAIN comments' :
              comments[k].approved => comments'[k].approved
        /\ \A k \in DOMAIN replies \cap DOMAIN replies' :
              replies[k].approved => replies'[k].approved
        /\ \A k \in DOMAIN comments' \ DOMAIN comments : ~comments'[k].approved
        /\ \A k \in DOMAIN replies' \ DOMAIN replies : ~replies'[k].approved ]_vars

\* a comment removed while another comment and a reply, both approved, stay as they are
C10_Witness ==
    /\ request.view = "comment_remove"
    /\ response.kind = "Redirect"
    /\ \E k \in DOMAIN comments : comments[k].approved
    /\ \E r \in DOMAIN replies : replies[r].approved

====
